---- MODULE Spec2Model ----
(***************************************************************************)
(* parquet2sql: incremental update of an SQL table from a parquet file.    *)
(* One behaviour is one call of ParquetManager.process_parquet against one *)
(* database.  The data frame is a sequence of rows (functions from column  *)
(* name to value); the target table is a bag of rows.                      *)
(***************************************************************************)
EXTENDS Integers, Sequences, FiniteSets, Bags, TLC

\* ---------------------------------------------------------------- bounds
MaxRows == 2        \* rows in the parquet file
MaxTable == 2       \* rows in the target table before the call

\* ------------------------------------------------------------- constants
UPDATE_COLUMN == "op"

None == "None"                      \* a null cell
Val == {"a", "b"}                   \* non-null cell values
OpVal == {"True", "False", None}    \* what a cell of the marker column holds
KeyCol == "id"
ColumnSets == {{"id"}, {"id", "name"}}

VARIABLES
    pc,              \* position inside process_parquet
    parquet,         \* content of the parquet file: [columns, rows]
    df,              \* the loaded DataFrame: [columns, rows]
    tableExists,     \* the target table exists in the database
    tableCols,       \* its columns in the database
    table,           \* its rows: a bag of functions tableCols -> cell
    table0,          \* history: the rows before the call
    tcols,           \* columns of the reflected sqlalchemy.Table object
    delete_condtion, \* the per-row conjunctions handed to or_()
    add_data,        \* the frame handed to to_sql: [columns, rows]
    stmts,           \* statements sent to the database: [op, ok]
    err              \* the exception that ended the call: [kind, at]

vars == <<pc, parquet, df, tableExists, tableCols, table, table0, tcols,
          delete_condtion, add_data, stmts, err>>

\* ------------------------------------------------------------- helpers
Range(s) == {s[i] : i \in DOMAIN s}

SeqsUpTo(S, n) == UNION {[1..k -> S] : k \in 0..n}

SeqToBag(s) == [r \in Range(s) |-> Cardinality({i \in DOMAIN s : s[i] = r})]

NoFrame == [columns |-> {}, rows |-> <<>>]
NoErr == [kind |-> "", at |-> ""]

Frames ==
    UNION {
        UNION {
            LET columns == dc \cup (IF hasOp THEN {UPDATE_COLUMN} ELSE {})
                Rows == {r \in [columns -> Val \cup OpVal] :
                            \A c \in columns :
                                IF c = UPDATE_COLUMN THEN r[c] \in OpVal
                                                     ELSE r[c] \in Val}
            IN  {[columns |-> columns, rows |-> s] : s \in SeqsUpTo(Rows, MaxRows)}
            : hasOp \in BOOLEAN}
        : dc \in ColumnSets}

Tables(cols) == {SeqToBag(s) : s \in SeqsUpTo([cols -> Val], MaxTable)}

\* the exception propagates out of process_parquet
Raise(kind) ==
    /\ pc' = "failed"
    /\ err' = [kind |-> kind, at |-> pc]

\* ------------------------------------------------------ pure operators
\* faulty variant: the negation is dropped, the rows marked True are selected
logical_not_dropped(v, nullNeg) == v = "True"

\* numpy.logical_not on one cell of the marker column.  A null cell has no
\* boolean dtype: what its negation selects depends on the dtype the reader
\* produced (object: not None is True; float: not NaN is False), so nullNeg
\* is chosen by the caller.
logical_not(v, nullNeg) ==
    IF v = "True" THEN FALSE
    ELSE IF v = "False" THEN TRUE
    ELSE nullNeg

HasNull(d) == \E i \in DOMAIN d.rows : d.rows[i][UPDATE_COLUMN] = None

\* df.loc[numpy.logical_not(df["op"])]
delete_df(d, nullNeg) ==
    SelectSeq(d.rows, LAMBDA r : logical_not(r[UPDATE_COLUMN], nullNeg))

\* and_(*[table.c[col] == row[col] for col in table.columns.keys()]):
\* the conjunction is the map column -> required value
filter_data(row, cols) == [col \in cols |-> row[col]]

\* the rows "DELETE FROM t WHERE or_(*conds)" selects.  or_() of no clause
\* renders as an empty string and the statement is emitted with no WHERE
\* clause at all: it selects every row.
Selected(r, conds) ==
    \/ Len(conds) = 0
    \/ \E i \in DOMAIN conds : \A col \in DOMAIN conds[i] : r[col] = conds[i][col]

\* faulty variant: one copy of each selected row is deleted per statement
DeleteFrom_one_copy(tbl, conds) ==
    LET left(r) == IF Selected(r, conds) THEN tbl[r] - 1 ELSE tbl[r]
    IN  [r \in {x \in DOMAIN tbl : left(x) > 0} |-> left(r)]

DeleteFrom(tbl, conds) ==
    [r \in {x \in DOMAIN tbl : ~Selected(x, conds)} |-> tbl[r]]

\* df.loc[df["op"]].drop("op", axis=1)
AddData(d) ==
    LET keep == d.columns \ {UPDATE_COLUMN}
        rows == SelectSeq(d.rows, LAMBDA r : r[UPDATE_COLUMN] = "True")
    IN  [columns |-> keep,
         rows |-> [i \in DOMAIN rows |-> [c \in keep |-> rows[i][c]]]]

\* INSERT INTO t (frame columns) VALUES ...: a table column the frame does
\* not name is left null
Inserted(tbl, frame, cols) ==
    tbl (+) SeqToBag([i \in DOMAIN frame.rows |->
                        [c \in cols |-> IF c \in frame.columns
                                        THEN frame.rows[i][c] ELSE None]])

\* ------------------------------------------------------------- initial
Init ==
    /\ pc = "start"
    /\ parquet \in Frames
    /\ df = NoFrame
    /\ tableExists \in BOOLEAN
    /\ tableCols \in (IF tableExists THEN ColumnSets ELSE {{}})
    /\ table \in (IF tableExists THEN Tables(tableCols) ELSE {EmptyBag})
    /\ table0 = table
    /\ tcols = {}
    /\ delete_condtion = <<>>
    /\ add_data = NoFrame
    /\ stmts = <<>>
    /\ err = NoErr

\* ------------------------------------------------------------- actions
\* process_parquet: df = self._load_parquet(parquet)
load_parquet ==
    /\ pc = "start"
    /\ df' = parquet
    /\ pc' = "loaded"
    /\ UNCHANGED <<parquet, tableExists, tableCols, table, table0, tcols,
                   delete_condtion, add_data, stmts, err>>

\* faulty variant: the marker column is not checked before the table is reflected
incremental_delete_check_skipped ==
    /\ pc = "loaded"
    /\ pc' = "checked"
    /\ UNCHANGED <<parquet, df, tableExists, tableCols, table, table0, tcols,
                   delete_condtion, add_data, stmts, err>>

\* _incremental_delete: if self.UPDATE_COLUMN not in df.columns: raise KeyError
incremental_delete_check ==
    /\ pc = "loaded"
    /\ IF UPDATE_COLUMN \notin df.columns
       THEN Raise("KeyError:op")
       ELSE pc' = "checked" /\ err' = err
    /\ UNCHANGED <<parquet, df, tableExists, tableCols, table, table0, tcols,
                   delete_condtion, add_data, stmts>>

\* faulty variant: a missing table reflects as a table of no columns
incremental_delete_reflect_missing_ok ==
    /\ pc = "checked"
    /\ stmts' = Append(stmts, [op |-> "reflect", ok |-> tableExists])
    /\ pc' = "reflected"
    /\ tcols' = tableCols
    /\ UNCHANGED <<parquet, df, tableExists, tableCols, table, table0,
                   delete_condtion, add_data, err>>

\* _incremental_delete: sqlalchemy.Table(table_name, meta, autoload=True, ...)
incremental_delete_reflect ==
    /\ pc = "checked"
    /\ stmts' = Append(stmts, [op |-> "reflect", ok |-> tableExists])
    /\ IF ~tableExists
       THEN Raise("NoSuchTableError") /\ tcols' = tcols
       ELSE pc' = "reflected" /\ err' = err /\ tcols' = tableCols
    /\ UNCHANGED <<parquet, df, tableExists, tableCols, table, table0,
                   delete_condtion, add_data>>

\* _incremental_delete: delete_df, delete_df.apply(filter_data), or_, delete()
incremental_delete_build ==
    /\ pc = "reflected"
    /\ IF UPDATE_COLUMN \notin df.columns
       THEN Raise("KeyError:op") /\ delete_condtion' = delete_condtion
       ELSE \E nullNeg \in BOOLEAN :
              LET rows == delete_df(df, nullNeg) IN
              \* apply() on a frame of no rows probes filter_data with an empty
              \* row and drops the exception: the KeyError surfaces only when
              \* there is a row to delete
              IF Len(rows) > 0 /\ ~(tcols \subseteq df.columns)
              THEN Raise("KeyError:column") /\ delete_condtion' = delete_condtion
              ELSE /\ delete_condtion' =
                        [i \in DOMAIN rows |-> filter_data(rows[i], tcols)]
                   /\ pc' = "built"
                   /\ err' = err
    /\ UNCHANGED <<parquet, df, tableExists, tableCols, table, table0, tcols,
                   add_data, stmts>>

\* faulty variant: the error of the delete statement is swallowed
incremental_delete_execute_swallow ==
    /\ pc = "built"
    /\ \/ /\ tableExists
          /\ stmts' = Append(stmts, [op |-> "delete", ok |-> TRUE])
          /\ table' = DeleteFrom(table, delete_condtion)
       \/ /\ stmts' = Append(stmts, [op |-> "delete", ok |-> FALSE])
          /\ table' = table
    /\ pc' = "deleted"
    /\ UNCHANGED <<parquet, df, tableExists, tableCols, table0, tcols,
                   delete_condtion, add_data, err>>

\* _incremental_delete: with self.engine.connect() as conn: conn.execute(delete)
\* The statement commits on its own (autocommit); a database error propagates.
incremental_delete_execute ==
    /\ pc = "built"
    /\ \/ /\ tableExists
          /\ stmts' = Append(stmts, [op |-> "delete", ok |-> TRUE])
          /\ table' = DeleteFrom(table, delete_condtion)
          /\ pc' = "deleted"
          /\ err' = err
       \/ /\ stmts' = Append(stmts, [op |-> "delete", ok |-> FALSE])
          /\ table' = table
          /\ Raise("DatabaseError")
    /\ UNCHANGED <<parquet, df, tableExists, tableCols, table0, tcols,
                   delete_condtion, add_data>>

\* _incremental_update: the column check and df.loc[df["op"]].drop("op")
incremental_update_select ==
    /\ pc = "deleted"
    /\ IF UPDATE_COLUMN \notin df.columns
       THEN Raise("KeyError:op") /\ add_data' = add_data
       ELSE IF HasNull(df)
       \* a marker column holding a null is no boolean mask for df.loc
       THEN Raise("ValueError") /\ add_data' = add_data
       ELSE /\ add_data' = AddData(df)
            /\ pc' = "selected"
            /\ err' = err
    /\ UNCHANGED <<parquet, df, tableExists, tableCols, table, table0, tcols,
                   delete_condtion, stmts>>

\* faulty variant: the rows are inserted one by one with no transaction around them
RolledBack_partial(tbl, frame, cols) ==
    Inserted(tbl, [frame EXCEPT !.rows = SubSeq(frame.rows, 1, 1)], cols)

\* to_sql inserts inside one transaction: a failed INSERT leaves no row
RolledBack(tbl, frame, cols) == tbl

\* _incremental_update: add_data.to_sql(table, engine, if_exists="append")
\* if_exists="append" creates a missing table from the frame's columns; a
\* frame of no rows sends no INSERT.
to_sql ==
    /\ pc = "selected"
    /\ LET checked == Append(stmts, [op |-> "has_table", ok |-> tableExists])
           exists == IF tableExists THEN checked
                     ELSE Append(checked, [op |-> "create", ok |-> TRUE])
           cols == IF tableExists THEN tableCols ELSE add_data.columns
       IN
       /\ tableExists' = TRUE
       /\ tableCols' = cols
       /\ IF Len(add_data.rows) = 0
          THEN /\ stmts' = exists
               /\ table' = table
               /\ pc' = "added"
               /\ err' = err
          ELSE IF ~(add_data.columns \subseteq cols)
          THEN /\ stmts' = Append(exists, [op |-> "insert", ok |-> FALSE])
               /\ table' = RolledBack(table, add_data, cols)
               /\ Raise("DatabaseError")
          ELSE \/ /\ stmts' = Append(exists, [op |-> "insert", ok |-> TRUE])
                  /\ table' = Inserted(table, add_data, cols)
                  /\ pc' = "added"
                  /\ err' = err
               \/ /\ stmts' = Append(exists, [op |-> "insert", ok |-> FALSE])
                  /\ table' = RolledBack(table, add_data, cols)
                  /\ Raise("DatabaseError")
    /\ UNCHANGED <<parquet, df, table0, tcols, delete_condtion, add_data>>

\* process_parquet: self.log.info(...) and return
process_parquet_return ==
    /\ pc = "added"
    /\ pc' = "done"
    /\ UNCHANGED <<parquet, df, tableExists, tableCols, table, table0, tcols,
                   delete_condtion, add_data, stmts, err>>

Next ==
    \/ load_parquet
    \/ incremental_delete_check
    \/ incremental_delete_reflect
    \/ incremental_delete_build
    \/ incremental_delete_execute
    \/ incremental_update_select
    \/ to_sql
    \/ process_parquet_return

Spec == Init /\ [][Next]_vars

TypeOK ==
    /\ pc \in {"start", "loaded", "checked", "reflected", "built", "deleted",
               "selected", "added", "done", "failed"}
    /\ (pc = "failed") = (err # NoErr)

\* ------------------------------------------------- vocabulary of claims
Terminal == pc \in {"done", "failed"}
Issued(op) == \E i \in DOMAIN stmts : stmts[i].op = op
Succeeded(op) == \E i \in DOMAIN stmts : stmts[i].op = op /\ stmts[i].ok
HasMarker == UPDATE_COLUMN \in parquet.columns
NonMarker == parquet.columns \ {UPDATE_COLUMN}
Marked(v) == {i \in DOMAIN parquet.rows : parquet.rows[i][UPDATE_COLUMN] = v}
BooleanMarker == HasMarker /\ Marked(None) = {}
\* the snapshot row i without its marker, as a row of the table
Stripped(i) == [c \in tableCols |-> parquet.rows[i][c]]
\* the table row r equals the delete-set row i on every table column
EqualsDeleteRow(r, i) == \A c \in tableCols : r[c] = parquet.rows[i][c]
KeyRows(tbl, k) == [r \in {x \in DOMAIN tbl : x[KeyCol] = k} |-> tbl[r]]
AddSetBag ==
    LET idx == Marked("True")
    IN  [r \in {Stripped(i) : i \in idx} |->
            Cardinality({i \in idx : Stripped(i) = r})]

\* ---------------------------------------------------------------- claims
\* C1: a snapshot without the marker column "op" makes the call fail with the
\* missing-marker error, and no statement at all reaches the database: no
\* introspection, no delete, no insert, the table unchanged.
C1_MissingMarkerNoStatements ==
    ~HasMarker =>
        /\ stmts = <<>>
        /\ table = table0
        /\ pc \in {"start", "loaded", "failed"}
        /\ pc = "failed" => err = [kind |-> "KeyError:op", at |-> "loaded"]

C1_Witness ==
    /\ ~HasMarker
    /\ pc = "failed"
    /\ tableExists
    /\ table0 # EmptyBag
    /\ Len(parquet.rows) > 0

\* C2: no insert is sent before the delete statement has finished
\* successfully, the add phase is entered only after it, and once the delete
\* has failed the call has failed and no insert is ever sent.
C2_DeleteBeforeAdd ==
    /\ \A i \in DOMAIN stmts :
          stmts[i].op \in {"has_table", "create", "insert"} =>
              \E j \in 1..(i - 1) : stmts[j].op = "delete" /\ stmts[j].ok
    /\ pc \in {"deleted", "selected", "added", "done"} => Succeeded("delete")
    /\ (\E j \in DOMAIN stmts : stmts[j].op = "delete" /\ ~stmts[j].ok) =>
          /\ pc = "failed"
          /\ ~Issued("insert")

C2_Witness ==
    /\ pc = "done"
    /\ Succeeded("insert")
    /\ table0 # EmptyBag
    /\ Marked("False") # {}

\* C6: when the target table does not exist the call fails with the
\* table-not-found error raised by the introspection, before the delete
\* phase: no delete and no insert is sent and no table is created.
C6_MissingTableFails ==
    (HasMarker /\ (~tableExists \/ Issued("create"))) =>
        /\ ~Issued("delete")
        /\ ~Issued("insert")
        /\ ~Issued("create")
        /\ ~tableExists
        /\ table = EmptyBag
        /\ pc \in {"start", "loaded", "checked", "failed"}
        /\ pc = "failed" => err = [kind |-> "NoSuchTableError", at |-> "checked"]

C6_Witness ==
    /\ HasMarker
    /\ ~tableExists
    /\ pc = "failed"
    /\ Marked("False") # {}
    /\ Marked("True") # {}

\* C7: when the delete phase has succeeded and the add phase fails, the call
\* has failed, the table is the initial table with the deleted rows still
\* deleted, and no row of the add-set has been inserted.
C7_PhaseLevelFailure ==
    (pc = "failed" /\ err.at \in {"deleted", "selected"}) =>
        /\ Succeeded("delete")
        /\ ~Succeeded("insert")
        /\ table = DeleteFrom(table0, delete_condtion)

C7_Witness ==
    /\ pc = "failed"
    /\ err.at = "selected"
    /\ Len(add_data.rows) > 0
    /\ table # table0
    /\ table # EmptyBag

\* C10: the delete statement run again, with the same conditions, on the
\* table the first run has cleaned deletes no further row.
C10_DeleteIdempotent ==
    pc = "deleted" => DeleteFrom(table, delete_condtion) = table

C10_Witness ==
    /\ pc = "deleted"
    /\ Len(delete_condtion) > 0
    /\ \E r \in DOMAIN table0 : table0[r] = 2 /\ r \notin DOMAIN table

\* the snapshot has a delete-set row and an add-set row with key k
SameKey(k) ==
    /\ \E i \in Marked("False") : parquet.rows[i][KeyCol] = k
    /\ \E j \in Marked("True") : parquet.rows[j][KeyCol] = k

\* the table holds exactly one row with key k, which is an add-set row
OneAddedRow(k) ==
    \E j \in Marked("True") :
        /\ parquet.rows[j][KeyCol] = k
        /\ KeyRows(table, k) = SetToBag({Stripped(j)})

\* every row of the initial table with key k equals some delete-set row on
\* every table column
StaleRowsMatched(k) ==
    \A r \in DOMAIN table0 :
        r[KeyCol] = k => \E i \in Marked("False") : EqualsDeleteRow(r, i)

\* C5 as stated: after a successful call on a snapshot with a delete-set row
\* and an add-set row of the same key K, the table holds exactly one row with
\* key K, the added one.
C5_Original ==
    pc = "done" => \A k \in Val : SameKey(k) => OneAddedRow(k)

\* C5 as amended: the same, provided every row of the initial table with key
\* K equals some delete-set row on every table column and exactly one add-set
\* row has key K (rows are deleted by exact match of all columns, and every
\* add-set row is appended).
C5_SameKeyExactMatch ==
    pc = "done" =>
        \A k \in Val :
            ( /\ SameKey(k)
              /\ StaleRowsMatched(k)
              /\ Cardinality({j \in Marked("True") :
                                parquet.rows[j][KeyCol] = k}) = 1 )
            => OneAddedRow(k)

C5_Witness ==
    /\ pc = "done"
    /\ \E k \in Val :
          /\ SameKey(k)
          /\ StaleRowsMatched(k)
          /\ \E r \in DOMAIN table0 : r[KeyCol] = k /\ r \notin DOMAIN table
          /\ OneAddedRow(k)

\* C3: with no row marked false the delete phase does nothing: no row of the
\* initial table is removed, no delete statement is sent, and a successful
\* call has only appended the add-set.
C3_EmptyDeleteSetNoop ==
    (BooleanMarker /\ Marked("False") = {}) =>
        /\ \A r \in DOMAIN table0 : CopiesIn(r, table) >= table0[r]
        /\ ~Issued("delete")
        /\ pc = "done" => table = table0 (+) AddSetBag

\* C4: a snapshot whose non-marker columns are not exactly the table's
\* columns makes the call fail with the column-mismatch error before any
\* delete or insert is sent, whatever the delete-set and the add-set hold.
C4_ColumnMismatchFailsFirst ==
    (BooleanMarker /\ tableExists /\ ~Issued("create") /\ NonMarker # tableCols) =>
        /\ table = table0
        /\ ~Issued("delete")
        /\ ~Issued("insert")
        /\ Terminal => (pc = "failed" /\ err.kind = "KeyError:column")

\* C8: after a successful call on a snapshot with a boolean marker and the
\* table's columns, the table holds the initial rows that equal no delete-set
\* row on every column, plus one row per add-set row.
C8_ExactResult ==
    (pc = "done" /\ NonMarker = tableCols) =>
        table =
            [r \in {x \in DOMAIN table0 :
                        ~\E i \in Marked("False") : EqualsDeleteRow(x, i)}
                |-> table0[r]] (+) AddSetBag

\* C9: a snapshot with a null marker is rejected before any mutation: the
\* call fails, and neither a delete nor an insert is sent.
C9_NullMarkerRejected ==
    (HasMarker /\ Marked(None) # {} /\ tableExists) =>
        /\ table = table0
        /\ ~Issued("delete")
        /\ ~Issued("insert")
        /\ Terminal => pc = "failed"

\* C8 restricted to snapshots with a row to delete (the condition list handed
\* to or_() is not empty)
ExactResultWhenDeleting ==
    (pc = "done" /\ NonMarker = tableCols /\ Marked("False") # {}) =>
        table =
            [r \in {x \in DOMAIN table0 :
                        ~\E i \in Marked("False") : EqualsDeleteRow(x, i)}
                |-> table0[r]] (+) AddSetBag

====
